---- MODULE Spec2Model ----
(***************************************************************************)
(* RSU vesting-schedule generation and valuation (utils/rsuCalculations)   *)
(* together with the price attachment done by RSUCalculator's              *)
(* updateVestPrices.                                                       *)
(*                                                                         *)
(* JavaScript numbers are modelled as tagged values so that the results of *)
(* a division by zero (Infinity, NaN) and absent optional fields           *)
(* (undefined) are values of the model.  Prices are whole numbers of the   *)
(* smallest currency unit.  A Date is a calendar month counted from        *)
(* January 2024 plus a day of the month.                                   *)
(***************************************************************************)
EXTENDS Integers, Sequences, FiniteSets, TLC

\* ------------------------------------------------------------------ bounds
MaxShares == 5
MaxYears == 1
MaxCliff == 14
MaxFreq == 5

\* ------------------------------------------------- JavaScript number values
Num(n) == [k |-> "num", v |-> n]
NaN == [k |-> "nan", v |-> 0]
Infinity == [k |-> "inf", v |-> 1]
NegInfinity == [k |-> "inf", v |-> -1]
undefined == [k |-> "undefined", v |-> 0]
null == [k |-> "null", v |-> 0]
\* a rejected promise / thrown Error
Throw == [k |-> "throw", v |-> 0]

IsNum(a) == a.k = "num"

Sign(n) == IF n > 0 THEN 1 ELSE IF n < 0 THEN -1 ELSE 0

\* a + b on numbers (undefined converts to NaN)
JsAdd(a, b) ==
  IF a.k \in {"nan", "undefined"} \/ b.k \in {"nan", "undefined"} THEN NaN
  ELSE IF a.k = "inf" /\ b.k = "inf" THEN (IF a.v = b.v THEN a ELSE NaN)
  ELSE IF a.k = "inf" THEN a
  ELSE IF b.k = "inf" THEN b
  ELSE Num(a.v + b.v)

\* a * b
JsMul(a, b) ==
  IF a.k \in {"nan", "undefined"} \/ b.k \in {"nan", "undefined"} THEN NaN
  ELSE IF a.k = "inf" \/ b.k = "inf"
       THEN (IF Sign(a.v) * Sign(b.v) = 0 THEN NaN
             ELSE [k |-> "inf", v |-> Sign(a.v) * Sign(b.v)])
  ELSE Num(a.v * b.v)

\* a - b
JsSub(a, b) == JsAdd(a, JsMul(Num(-1), b))

\* Math.floor(a / b) for integers a, b
MathFloorDiv(a, b) ==
  IF b = 0 THEN (IF a = 0 THEN NaN ELSE IF a > 0 THEN Infinity ELSE NegInfinity)
  ELSE IF b > 0 THEN Num(a \div b)
  ELSE Num((-a) \div (-b))

\* Math.ceil(a / b) for integers a, b with b > 0
MathCeilDiv(a, b) == -((-a) \div b)

\* a || b : a when a is truthy (0, NaN, undefined and null are falsy)
JsOr(a, b) ==
  IF a.k \in {"nan", "undefined", "null"} \/ (a.k = "num" /\ a.v = 0) THEN b ELSE a

\* a ?? b : a unless a is null or undefined
JsNullish(a, b) == IF a.k \in {"undefined", "null"} THEN b ELSE a

\* a <= b on numbers (false as soon as one side is NaN)
JsLE(a, b) ==
  IF a.k \in {"nan", "undefined"} \/ b.k \in {"nan", "undefined"} THEN FALSE
  ELSE IF a.k = "inf" THEN (a.v = -1 \/ (b.k = "inf" /\ b.v = 1))
  ELSE IF b.k = "inf" THEN b.v = 1
  ELSE a.v <= b.v

\* -------------------------------------------------------------------- dates
\* month 0 is January 2024
IsLeapYear(y) == (y % 4 = 0 /\ y % 100 # 0) \/ y % 400 = 0

DaysInMonth(m) ==
  LET moy == m % 12
      y == 2024 + (m \div 12)
  IN IF moy = 1 THEN (IF IsLeapYear(y) THEN 29 ELSE 28)
     ELSE IF moy \in {3, 5, 8, 10} THEN 30
     ELSE 31

MkDate(m, d) == [m |-> m, d |-> d]

\* date-fns addMonths: same day of the month, clamped to the end of the month
addMonths(date, amount) ==
  LET daysInMonth == DaysInMonth(date.m + amount)
  IN IF date.d >= daysInMonth THEN MkDate(date.m + amount, daysInMonth)
     ELSE MkDate(date.m + amount, date.d)

\* Date.getTime(), in days
getTime(date) == date.m * 31 + date.d

DateLE(a, b) == getTime(a) <= getTime(b)
DateGT(a, b) == getTime(a) > getTime(b)

\* ------------------------------------------------- generateVestingSchedule
\* a VestingEvent as pushed by the generator: price, priceError, value absent
VestingEvent(date, quantity) ==
  [date |-> date, quantity |-> quantity, price |-> undefined,
   priceError |-> "undefined", value |-> undefined]

totalVestingMonthsOf(vestingPeriodYears) == vestingPeriodYears * 12

\* the event count without the cliff event
totalVestingEventsOf_NoCliffEvent(totalVestingMonths, cliffMonths, vestingFrequencyMonths) ==
  IF cliffMonths > 0
  THEN (totalVestingMonths - cliffMonths) \div vestingFrequencyMonths
  ELSE MathCeilDiv(totalVestingMonths, vestingFrequencyMonths)

totalVestingEventsOf(totalVestingMonths, cliffMonths, vestingFrequencyMonths) ==
  IF cliffMonths > 0
  THEN ((totalVestingMonths - cliffMonths) \div vestingFrequencyMonths) + 1
  ELSE MathCeilDiv(totalVestingMonths, vestingFrequencyMonths)

sharesPerVestingOf(totalShares, totalVestingEvents) ==
  MathFloorDiv(totalShares, totalVestingEvents)

remainingSharesOf(totalShares, sharesPerVesting, totalVestingEvents) ==
  JsSub(Num(totalShares), JsMul(sharesPerVesting, Num(totalVestingEvents)))

\* the cliff event without the remaining shares
cliffVestingEvents_NoRemainder(grantDate, cliffMonths, sharesPerVesting, remainingShares) ==
  IF cliffMonths > 0
  THEN << VestingEvent(addMonths(grantDate, cliffMonths), sharesPerVesting) >>
  ELSE << >>

cliffVestingEvents(grantDate, cliffMonths, sharesPerVesting, remainingShares) ==
  IF cliffMonths > 0
  THEN << VestingEvent(addMonths(grantDate, cliffMonths),
                       JsAdd(sharesPerVesting, remainingShares)) >>
  ELSE << >>

\* the regular events starting at the cliff month itself
startMonthOf_AtCliff(cliffMonths, vestingFrequencyMonths) ==
  IF cliffMonths > 0 THEN cliffMonths ELSE vestingFrequencyMonths

startMonthOf(cliffMonths, vestingFrequencyMonths) ==
  IF cliffMonths > 0 THEN cliffMonths + vestingFrequencyMonths
  ELSE vestingFrequencyMonths

\* the regular events without the remaining shares on the last one
regularQuantity_NoRemainder(month, totalVestingMonths, cliffMonths, sharesPerVesting, remainingShares) ==
  sharesPerVesting

regularQuantity(month, totalVestingMonths, cliffMonths, sharesPerVesting, remainingShares) ==
  IF cliffMonths > 0 THEN sharesPerVesting
  ELSE IF month = totalVestingMonths THEN JsAdd(sharesPerVesting, remainingShares)
  ELSE sharesPerVesting

RECURSIVE regularVestingLoop(_, _, _, _, _, _, _, _)
regularVestingLoop(vestingEvents, month, grantDate, totalVestingMonths, cliffMonths, vestingFrequencyMonths, sharesPerVesting, remainingShares) ==
  IF month <= totalVestingMonths
  THEN regularVestingLoop(
         Append(vestingEvents,
                VestingEvent(addMonths(grantDate, month),
                             regularQuantity(month, totalVestingMonths, cliffMonths,
                                             sharesPerVesting, remainingShares))),
         month + vestingFrequencyMonths, grantDate, totalVestingMonths,
         cliffMonths, vestingFrequencyMonths, sharesPerVesting, remainingShares)
  ELSE vestingEvents

generateVestingSchedule(grantDate, totalShares, vestingPeriodYears, cliffMonths, vestingFrequencyMonths) ==
  LET totalVestingMonths == totalVestingMonthsOf(vestingPeriodYears)
      totalVestingEvents ==
        totalVestingEventsOf(totalVestingMonths, cliffMonths, vestingFrequencyMonths)
      sharesPerVesting == sharesPerVestingOf(totalShares, totalVestingEvents)
      remainingShares ==
        remainingSharesOf(totalShares, sharesPerVesting, totalVestingEvents)
  IN regularVestingLoop(
       cliffVestingEvents(grantDate, cliffMonths, sharesPerVesting, remainingShares),
       startMonthOf(cliffMonths, vestingFrequencyMonths), grantDate,
       totalVestingMonths, cliffMonths, vestingFrequencyMonths,
       sharesPerVesting, remainingShares)

\* ------------------------------------------------------------- valuation
RECURSIVE reduceQuantity(_, _)
\* .reduce((total, event) => total + event.quantity, total)
reduceQuantity(events, total) ==
  IF events = << >> THEN total
  ELSE reduceQuantity(Tail(events), JsAdd(total, Head(events).quantity))

\* event.date < asOfDate in place of event.date <= asOfDate
calculateTotalVestedShares_Strict(grant, asOfDate) ==
  reduceQuantity(
    SelectSeq(grant.vestingSchedule, LAMBDA event : DateGT(asOfDate, event.date)),
    Num(0))

calculateTotalVestedShares(grant, asOfDate) ==
  reduceQuantity(
    SelectSeq(grant.vestingSchedule, LAMBDA event : DateLE(event.date, asOfDate)),
    Num(0))

RECURSIVE reduceValue(_, _, _)
\* .reduce((total, event) => total + event.quantity * (event.price || currentPrice), total)
reduceValue(events, currentPrice, total) ==
  IF events = << >> THEN total
  ELSE reduceValue(Tail(events), currentPrice,
                   JsAdd(total, JsMul(Head(events).quantity,
                                      JsOr(Head(events).price, currentPrice))))

calculateTotalValue(grant, currentPrice) ==
  reduceValue(grant.vestingSchedule, currentPrice, Num(0))

\* ----------------------------------------------------------- price fetches
\* fetchStockPrice, given what the endpoint answers: Throw for a failed
\* request, otherwise meta.regularMarketPrice
fetchStockPrice(response) ==
  IF response = Throw THEN Throw
  ELSE IF JsOr(response, undefined) = undefined THEN Throw
  ELSE response

\* fetchHistoricalPrice without its check of the date
fetchHistoricalPrice_NoFutureCheck(date, now, response) ==
  response

\* fetchHistoricalPrice, given the time of the call and what the endpoint
\* answers: Throw for a failed request or no price data, otherwise the quote
fetchHistoricalPrice(date, now, response) ==
  IF DateGT(date, now) THEN null
  ELSE response

\* the number of requests fetchHistoricalPrice sends: its fetch is past the
\* early return
fetchHistoricalPriceRequests(date, now) ==
  IF DateGT(date, now) THEN 0 ELSE 1

\* the callback returning only the fields it computes, without ...event
updateVestingEvent_NoSpread(grant, event, now, currentPrice, response) ==
  [event EXCEPT
     !.quantity = undefined,
     !.price = IF DateLE(event.date, now) THEN JsNullish(response, undefined) ELSE currentPrice,
     !.priceError = "undefined",
     !.value = NaN]

\* the callback pricing every tranche, vested or not, at the current price
updateVestingEvent_CurrentPriceOnly(grant, event, now, currentPrice, response) ==
  [event EXCEPT
     !.price = currentPrice,
     !.priceError = "undefined",
     !.value = JsMul(event.quantity, JsOr(currentPrice, grant.grantPrice))]

\* the async callback mapped over grant.vestingSchedule in updateVestPrices
updateVestingEvent(grant, event, now, currentPrice, response) ==
  LET isVested == DateLE(event.date, now)
      historicalPrice == fetchHistoricalPrice(event.date, now, response)
      failed == isVested /\ historicalPrice = Throw
      price == IF isVested
               THEN (IF failed THEN undefined ELSE JsNullish(historicalPrice, undefined))
               ELSE currentPrice
  IN [event EXCEPT
        !.price = price,
        !.priceError = IF failed THEN "Failed to fetch price" ELSE "undefined",
        !.value = JsMul(event.quantity, JsOr(price, grant.grantPrice))]

\* updateVestPrices(grant), given the time of the call, the answer to the
\* current-price request and the answers to the historical requests (by the
\* parity of the month asked for)
updateVestPrices(grant, now, stockResponse, historical) ==
  LET currentPrice == fetchStockPrice(stockResponse)
  IN IF currentPrice = Throw
     THEN [grant EXCEPT !.priceError = "Failed to fetch prices"]
     ELSE [grant EXCEPT
             !.currentPrice = currentPrice,
             !.vestingSchedule =
               [i \in DOMAIN grant.vestingSchedule |->
                  updateVestingEvent(grant, grant.vestingSchedule[i], now, currentPrice,
                                     historical[grant.vestingSchedule[i].date.m % 2])]]

\* the price of a grant in its summary row
priceUsed(grant) == JsOr(grant.currentPrice, grant.grantPrice)

\* ------------------------------------------------------------------- state
VARIABLES
  formData,   \* the grant form: what handleSubmit reads
  submitted,  \* history: the form the grant under valuation was generated from
  grant,      \* the grant under valuation (NoGrant before the submit)
  now,        \* the clock, new Date()
  result,     \* the last library call and what it returned
  grants,     \* the grant list of RSUCalculator
  submit,     \* the handleSubmit awaiting its prices, or Idle
  refresh     \* the updateAllGrants awaiting its prices, or Idle

vars == << formData, submitted, grant, now, result, grants, submit, refresh >>
appVars == << grants, submit, refresh >>

Idle == [st |-> "idle"]
\* defaultFormData: no date, no quantity, no price, no symbol; 4 years, 12, 1
defaultFormData == [grantDate |-> MkDate(0, 0), quantity |-> 0, grantPrice |-> 0, symbol |-> "", vestingYears |-> 4, cliffMonths |-> 12, vestingFrequencyMonths |-> 1]

NoGrant == [symbol |-> "undefined"]
NoResult == [fn |-> "none"]

\* 2024-01-01 and 2024-01-31
GrantDates == { MkDate(0, 1), MkDate(0, 31) }
\* the times at which the form is submitted
Clock == { MkDate(2, 15), MkDate(13, 1) }
\* the asOfDate arguments
AsOfDates == { MkDate(0, 31), MkDate(1, 29), MkDate(12, 1), MkDate(14, 31) }
StockResponses == { Throw, Num(0), Num(2) }
HistoricalResponses == { Throw, Num(0), Num(3) }
FallbackPrices == { Num(2), Num(5) }

FormInputs ==
  [ grantDate : GrantDates,
    quantity : 1..MaxShares,
    grantPrice : {1},
    symbol : {"sym"},
    vestingYears : 1..MaxYears,
    cliffMonths : 0..MaxCliff,
    vestingFrequencyMonths : 1..MaxFreq ]

Init ==
  /\ formData \in FormInputs
  /\ submitted = defaultFormData
  /\ grant = NoGrant
  /\ now \in Clock
  /\ result = NoResult
  /\ grants = << >>
  /\ submit = Idle
  /\ refresh = Idle

\* String.toUpperCase on the ticker symbols of the model
toUpperCase(symbol) ==
  IF symbol = "sym" THEN "SYM" ELSE IF symbol = "aaa" THEN "AAA" ELSE symbol

\* the grant object built by handleSubmit from the form
newGrantOf(form) ==
  [ grantDate |-> form.grantDate,
    quantity |-> form.quantity,
    grantPrice |-> Num(form.grantPrice),
    symbol |-> toUpperCase(form.symbol),
    currentPrice |-> undefined,
    priceError |-> "undefined",
    vestingSchedule |->
      generateVestingSchedule(form.grantDate, form.quantity, form.vestingYears,
                              form.cliffMonths, form.vestingFrequencyMonths) ]

\* handleSubmit run to its end: build the grant, fetch its prices, hold it,
\* reset the form
handleSubmit(stockResponse, historical) ==
  /\ grant = NoGrant
  /\ formData # defaultFormData
  /\ grant' = updateVestPrices(newGrantOf(formData), now, stockResponse, historical)
  /\ submitted' = formData
  /\ formData' = defaultFormData
  /\ result' = NoResult
  /\ UNCHANGED << now, appVars >>

\* the summary table calls calculateTotalVestedShares
CallTotalVestedShares(asOfDate) ==
  /\ grant # NoGrant
  /\ result' = [fn |-> "calculateTotalVestedShares", asOfDate |-> asOfDate,
                value |-> calculateTotalVestedShares(grant, asOfDate)]
  /\ UNCHANGED << formData, submitted, grant, now, appVars >>

\* a calculateTotalValue that writes the price it used into the tranches
CallTotalValue_Pricing(currentPrice) ==
  /\ grant # NoGrant
  /\ grant' = [grant EXCEPT !.vestingSchedule =
                 [i \in DOMAIN grant.vestingSchedule |->
                    [grant.vestingSchedule[i] EXCEPT
                       !.price = JsOr(grant.vestingSchedule[i].price, currentPrice)]]]
  /\ result' = [fn |-> "calculateTotalValue", currentPrice |-> currentPrice,
                value |-> calculateTotalValue(grant, currentPrice)]
  /\ UNCHANGED << formData, submitted, now, appVars >>

\* the summary table calls calculateTotalValue
CallTotalValue(currentPrice) ==
  /\ grant # NoGrant
  /\ result' = [fn |-> "calculateTotalValue", currentPrice |-> currentPrice,
                value |-> calculateTotalValue(grant, currentPrice)]
  /\ UNCHANGED << formData, submitted, grant, now, appVars >>

Next ==
  \/ \E s \in StockResponses, h \in [0..1 -> HistoricalResponses] : handleSubmit(s, h)
  \/ \E d \in AsOfDates : CallTotalVestedShares(d)
  \/ \E p \in FallbackPrices : CallTotalValue(p)

Spec == Init /\ [][Next]_vars

\* ------------------------------------------------------- the scenarios
\* 1200 shares over 4 years, a cliff of 12 months, quarterly
Scenario1200 == [grantDate |-> MkDate(0, 1), quantity |-> 1200, grantPrice |-> 1, symbol |-> "sym", vestingYears |-> 4, cliffMonths |-> 12, vestingFrequencyMonths |-> 3]
\* 100 shares over 1 year, no cliff, monthly
Scenario100 == [grantDate |-> MkDate(0, 1), quantity |-> 100, grantPrice |-> 1, symbol |-> "sym", vestingYears |-> 1, cliffMonths |-> 0, vestingFrequencyMonths |-> 1]

ScenarioForms == { Scenario1200, Scenario100 }

ScenarioInit ==
  /\ formData \in ScenarioForms
  /\ submitted = defaultFormData
  /\ grant = NoGrant
  /\ now \in Clock
  /\ result = NoResult
  /\ grants = << >>
  /\ submit = Idle
  /\ refresh = Idle

ScenarioSpec == ScenarioInit /\ [][Next]_vars

\* -------------------------------------------- the generator step by step
\* generateVestingSchedule with one step for each iteration of its loop;
\* result is the frame of the call: the month counter, the events pushed so
\* far and the number of them the loop pushed
\* the loop condition taking its limit for years
loopContinues_Years(month, totalVestingMonths) ==
  month <= totalVestingMonths * 12

\* month <= totalVestingMonths
loopContinues(month, totalVestingMonths) ==
  month <= totalVestingMonths

\* the call up to the loop: the counts, the cliff event, let month = startMonth
generate_enter ==
  /\ result = NoResult
  /\ LET totalVestingMonths == totalVestingMonthsOf(formData.vestingYears)
         totalVestingEvents ==
           totalVestingEventsOf(totalVestingMonths, formData.cliffMonths,
                                formData.vestingFrequencyMonths)
         sharesPerVesting == sharesPerVestingOf(formData.quantity, totalVestingEvents)
         remainingShares ==
           remainingSharesOf(formData.quantity, sharesPerVesting, totalVestingEvents)
     IN result' = [fn |-> "generateVestingSchedule", pc |-> "loop",
                   totalVestingMonths |-> totalVestingMonths,
                   sharesPerVesting |-> sharesPerVesting,
                   remainingShares |-> remainingShares,
                   vestingEvents |-> cliffVestingEvents(formData.grantDate, formData.cliffMonths,
                                                        sharesPerVesting, remainingShares),
                   month |-> startMonthOf(formData.cliffMonths, formData.vestingFrequencyMonths),
                   pushed |-> 0]
  /\ UNCHANGED << formData, submitted, grant, now, appVars >>

\* one iteration: push the event of the month, month += vestingFrequencyMonths
generate_iterate ==
  /\ result # NoResult
  /\ result.pc = "loop"
  /\ loopContinues(result.month, result.totalVestingMonths)
  /\ result' = [result EXCEPT
                  !.vestingEvents =
                    Append(@, VestingEvent(addMonths(formData.grantDate, result.month),
                                           regularQuantity(result.month, result.totalVestingMonths,
                                                           formData.cliffMonths,
                                                           result.sharesPerVesting,
                                                           result.remainingShares))),
                  !.month = @ + formData.vestingFrequencyMonths,
                  !.pushed = @ + 1]
  /\ UNCHANGED << formData, submitted, grant, now, appVars >>

\* the loop condition fails: return vestingEvents
generate_return ==
  /\ result # NoResult
  /\ result.pc = "loop"
  /\ ~loopContinues(result.month, result.totalVestingMonths)
  /\ result' = [result EXCEPT !.pc = "returned"]
  /\ UNCHANGED << formData, submitted, grant, now, appVars >>

GenNext ==
  \/ generate_enter
  \/ generate_iterate
  \/ generate_return

GenSpec == Init /\ [][GenNext]_vars

\* the call is synchronous code: it runs until it returns
GenFairSpec == GenSpec /\ WF_vars(GenNext)

\* ------------------------------------------------------ pricing a grant
\* One held grant whose prices are fetched again and again, as each refresh
\* does, and the historical price asked for a date.
PriceForms ==
  [ grantDate : GrantDates,
    quantity : {MaxShares},
    grantPrice : {1},
    symbol : {"sym"},
    vestingYears : {1},
    cliffMonths : {0, 6},
    vestingFrequencyMonths : {1, 3} ]

PriceInit ==
  /\ formData \in PriceForms
  /\ submitted = defaultFormData
  /\ grant = NoGrant
  /\ now \in Clock
  /\ result = NoResult
  /\ grants = << >>
  /\ submit = Idle
  /\ refresh = Idle

\* time passes: new Date() gives a later time
Tick ==
  /\ \E t \in Clock : DateGT(t, now) /\ now' = t
  /\ UNCHANGED << formData, submitted, grant, result, appVars >>

\* updateVestPrices is applied to the held grant; result keeps the time of
\* the call and the answers its requests got
CallUpdateVestPrices(stockResponse, historical) ==
  /\ grant # NoGrant
  /\ grant' = updateVestPrices(grant, now, stockResponse, historical)
  /\ result' = [fn |-> "updateVestPrices", at |-> now, stock |-> stockResponse,
                historical |-> historical]
  /\ UNCHANGED << formData, submitted, now, appVars >>

\* fetchHistoricalPrice is called for a date
CallFetchHistoricalPrice(date, response) ==
  /\ result' = [fn |-> "fetchHistoricalPrice", at |-> now, date |-> date,
                value |-> fetchHistoricalPrice(date, now, response),
                requests |-> fetchHistoricalPriceRequests(date, now)]
  /\ UNCHANGED << formData, submitted, grant, now, appVars >>

PriceNext ==
  \/ \E s \in StockResponses, h \in [0..1 -> HistoricalResponses] : handleSubmit(s, h)
  \/ Tick
  \/ \E s \in StockResponses, h \in [0..1 -> HistoricalResponses] : CallUpdateVestPrices(s, h)
  \/ \E d \in AsOfDates, r \in HistoricalResponses : CallFetchHistoricalPrice(d, r)

PriceSpec == PriceInit /\ [][PriceNext]_vars

\* ------------------------------------------------- the calculator at work
\* The component as the event loop runs it: a handler runs to its next await,
\* and other handlers run before the awaited prices arrive.  The time zone
\* is UTC, where format(date, 'yyyy-MM-dd') and new Date(string) name the
\* same day.
MaxGrants == 2

\* the forms the user fills in
AppForms ==
  { [grantDate |-> MkDate(0, 1), quantity |-> 4, grantPrice |-> 1, symbol |-> "aaa", vestingYears |-> 1, cliffMonths |-> 0, vestingFrequencyMonths |-> 3],
    [grantDate |-> MkDate(0, 31), quantity |-> 3, grantPrice |-> 1, symbol |-> "BBB", vestingYears |-> 1, cliffMonths |-> 9, vestingFrequencyMonths |-> 3] }
\* 2024-08-01
AppNow == MkDate(7, 1)
AppStockResponses == { Throw, Num(2) }
AppHistoricalResponses == { Num(3) }
\* no historical request is made
NotRequested == [p \in 0..1 |-> undefined]
\* every historical request of the call gets the same answer
Uniform(response) == [p \in 0..1 |-> response]
\* the answers to the historical requests of one updateVestPrices
HistoricalAnswers(stockResponse) ==
  IF fetchStockPrice(stockResponse) = Throw THEN { NotRequested }
  ELSE { Uniform(r) : r \in AppHistoricalResponses }
\* the answers the requests of one updateVestPrices can get
AppAnswers ==
  UNION { { [stock |-> s, historical |-> h] : h \in HistoricalAnswers(s) } : s \in AppStockResponses }

AppInit ==
  /\ formData = defaultFormData
  /\ submitted = defaultFormData
  /\ grant = NoGrant
  /\ now = AppNow
  /\ result = NoResult
  /\ grants = << >>
  /\ submit = Idle
  /\ refresh = Idle

\* the user fills in the form
handleInputChange(form) ==
  /\ formData # form
  /\ formData' = form
  /\ UNCHANGED << submitted, grant, now, result, appVars >>

\* handleSubmit up to its await: the form is read, the schedule generated
handleSubmit_begin ==
  /\ submit = Idle
  /\ formData # defaultFormData
  /\ Len(grants) < MaxGrants
  /\ submit' = [st |-> "loading", newGrant |-> newGrantOf(formData)]
  /\ UNCHANGED << formData, submitted, grant, now, result, grants, refresh >>

\* a handleSubmit that replaces the held grant of the same symbol, as an edit
\* in place would
handleSubmit_resume_Replacing(stockResponse, historical) ==
  /\ submit # Idle
  /\ Len(grants) < MaxGrants
  /\ LET updatedGrant == updateVestPrices(submit.newGrant, now, stockResponse, historical)
     IN grants' = IF \E i \in DOMAIN grants : grants[i].symbol = updatedGrant.symbol
                  THEN [i \in DOMAIN grants |->
                          IF grants[i].symbol = updatedGrant.symbol THEN updatedGrant ELSE grants[i]]
                  ELSE Append(grants, updatedGrant)
  /\ formData' = defaultFormData
  /\ submit' = Idle
  /\ UNCHANGED << submitted, grant, now, result, refresh >>

\* handleSubmit after its await: the priced grant is appended, the form reset
handleSubmit_resume(stockResponse, historical) ==
  /\ submit # Idle
  /\ Len(grants) < MaxGrants
  /\ grants' = Append(grants, updateVestPrices(submit.newGrant, now, stockResponse, historical))
  /\ formData' = defaultFormData
  /\ submit' = Idle
  /\ UNCHANGED << submitted, grant, now, result, refresh >>

\* prev.filter((_, index) => index !== grantIndex)
handleGrantDelete(grantIndex) ==
  /\ grantIndex \in DOMAIN grants
  /\ grants' = SubSeq(grants, 1, grantIndex - 1) \o SubSeq(grants, grantIndex + 1, Len(grants))
  /\ UNCHANGED << formData, submitted, grant, now, result, submit, refresh >>

\* the form is filled from the grant, with the default vesting parameters
handleGrantEdit(g) ==
  /\ formData' = [grantDate |-> g.grantDate, quantity |-> g.quantity, grantPrice |-> g.grantPrice.v, symbol |-> g.symbol, vestingYears |-> 4, cliffMonths |-> 12, vestingFrequencyMonths |-> 1]
  /\ formData' # formData
  /\ UNCHANGED << submitted, grant, now, result, appVars >>

\* the interval fires: updateAllGrants maps updateVestPrices over the grants
\* of its closure, which sends the requests, and awaits them all; answers
\* are the answers those requests are going to get
updateAllGrants_begin(answers) ==
  /\ refresh = Idle
  /\ grants # << >>
  /\ refresh' = [st |-> "running", snapshot |-> grants, answers |-> answers]
  /\ UNCHANGED << formData, submitted, grant, now, result, grants, submit >>

SnapshotOf(r) == IF r = Idle THEN << >> ELSE r.snapshot

\* a Promise.all that one failed grant rejects: nothing is updated
updatedGrants_AllOrNothing(r) ==
  IF \E i \in DOMAIN r.snapshot : fetchStockPrice(r.answers[i].stock) = Throw
  THEN r.snapshot
  ELSE [i \in DOMAIN r.snapshot |->
          updateVestPrices(r.snapshot[i], now, r.answers[i].stock, r.answers[i].historical)]

\* the current prices written before the tranches are priced
updatedGrants_CurrentPriceOnly(r) ==
  [i \in DOMAIN r.snapshot |->
     IF fetchStockPrice(r.answers[i].stock) = Throw THEN r.snapshot[i]
     ELSE [r.snapshot[i] EXCEPT !.currentPrice = fetchStockPrice(r.answers[i].stock)]]

\* the grants as updateAllGrants resolves them
updatedGrants(r) ==
  [i \in DOMAIN r.snapshot |->
     updateVestPrices(r.snapshot[i], now, r.answers[i].stock, r.answers[i].historical)]

\* Promise.all resolves: setGrants(updatedGrants)
updateAllGrants_resume ==
  /\ refresh # Idle
  /\ grants' = updatedGrants(refresh)
  /\ refresh' = Idle
  /\ UNCHANGED << formData, submitted, grant, now, result, submit >>

\* the symbols of a grant list
SymbolsOf(list) == { list[i].symbol : i \in DOMAIN list }

\* the user adds no second grant of a symbol already held
NewSymbol == toUpperCase(formData.symbol) \notin SymbolsOf(grants)

AppNext ==
  \/ \E form \in AppForms : handleInputChange(form)
  \/ (NewSymbol /\ handleSubmit_begin)
  \/ \E a \in AppAnswers : handleSubmit_resume(a.stock, a.historical)
  \/ \E i \in DOMAIN grants : handleGrantDelete(i)
  \/ \E answers \in [DOMAIN grants -> AppAnswers] : updateAllGrants_begin(answers)
  \/ updateAllGrants_resume

AppSpec == AppInit /\ [][AppNext]_vars

\* the calculator with its edit button and no interval
EditNext ==
  \/ \E form \in AppForms : handleInputChange(form)
  \/ handleSubmit_begin
  \/ \E a \in AppAnswers : handleSubmit_resume(a.stock, a.historical)
  \/ \E i \in DOMAIN grants : handleGrantEdit(grants[i])

EditSpec == AppInit /\ [][EditNext]_vars

\* ------------------------------------------------------------ properties
\* a grant is held; submitted is the form it was generated from
Submitted == grant # NoGrant
TotalMonths == submitted.vestingYears * 12
Schedule == grant.vestingSchedule
\* the month offset of a tranche from the grant date
Offset(event) == event.date.m - submitted.grantDate.m

\* the sum of a sequence of JavaScript numbers, last to first
SumOf(qs) ==
  LET f[i \in 0..Len(qs)] ==
        IF i = Len(qs) THEN Num(0) ELSE JsAdd(qs[i + 1], f[i + 1])
  IN f[0]

\* C1: the quantities of the emitted tranches sum exactly to totalShares,
\* for every valid input
C1_QuantitiesSumToTotalShares ==
  Submitted =>
    SumOf([i \in DOMAIN Schedule |-> Schedule[i].quantity]) = Num(submitted.quantity)

\* C2: with a cliff, the first tranche is at offset cliffMonths with quantity
\* base + remainder, followed by one tranche of quantity base at every offset
\* cliffMonths + k*frequency (k >= 1) up to totalMonths, and nothing else;
\* eventCount = floor((totalMonths - cliffMonths) / frequency) + 1,
\* base = floor(totalShares / eventCount), remainder = totalShares - base*eventCount
C2_CliffSchedule ==
  (Submitted /\ submitted.cliffMonths > 0) =>
    LET C == submitted.cliffMonths
        F == submitted.vestingFrequencyMonths
        S == submitted.quantity
        eventCount == ((TotalMonths - C) \div F) + 1
        base == IF eventCount > 0 THEN S \div eventCount ELSE (-S) \div (-eventCount)
        remainder == S - base * eventCount
        later == { k \in 1..TotalMonths : C + k * F <= TotalMonths }
    IN \* base is a number only for eventCount # 0
       /\ eventCount # 0
       /\ Len(Schedule) = 1 + Cardinality(later)
       /\ Offset(Schedule[1]) = C
       /\ Schedule[1].quantity = Num(base + remainder)
       /\ \A k \in later :
            /\ Offset(Schedule[k + 1]) = C + k * F
            /\ Schedule[k + 1].quantity = Num(base)

\* C3: without a cliff, tranches are at offsets frequency, 2*frequency, ... up
\* to totalMonths; each has quantity base except the final emitted one, which
\* has base + remainder
C3_NoCliffSchedule ==
  (Submitted /\ submitted.cliffMonths = 0) =>
    LET F == submitted.vestingFrequencyMonths
        S == submitted.quantity
        eventCount == (TotalMonths + F - 1) \div F
        base == S \div eventCount
        remainder == S - base * eventCount
        n == TotalMonths \div F
    IN /\ Len(Schedule) = n
       /\ \A k \in 1..n :
            /\ Offset(Schedule[k]) = k * F
            /\ Schedule[k].quantity = IF k = n THEN Num(base + remainder) ELSE Num(base)

\* C4: the tranche dates are strictly increasing in the order returned
C4_DatesStrictlyIncreasing ==
  Submitted =>
    \A i \in 1..(Len(Schedule) - 1) :
      /\ DateGT(Schedule[i + 1].date, Schedule[i].date)
      /\ Offset(Schedule[i + 1]) > Offset(Schedule[i])

\* a cliff schedule of at least three tranches from a grant dated the 31st,
\* with a date clamped to a shorter month
C4_Witness ==
  /\ Submitted
  /\ submitted.cliffMonths > 0
  /\ submitted.grantDate.d = 31
  /\ Len(Schedule) >= 3
  /\ \E i \in DOMAIN Schedule : Schedule[i].date.d < 31

\* C5: every emitted quantity is a non-negative integer
C5_QuantitiesNonNegativeIntegers ==
  Submitted =>
    \A i \in DOMAIN Schedule :
      IsNum(Schedule[i].quantity) /\ Schedule[i].quantity.v >= 0

\* C6: when the event count is zero or negative the generator fails and
\* returns no tranches
C6_InvalidParametersRejected ==
  (Submitted /\ totalVestingEventsOf(TotalMonths, submitted.cliffMonths,
                                     submitted.vestingFrequencyMonths) <= 0)
    => Schedule = << >>

\* C7: calculateTotalVestedShares returns the sum of the quantities of the
\* tranches dated on or before asOfDate, 0 when there is none
C7_VestedIsSumUpToDate ==
  (Submitted /\ result.fn = "calculateTotalVestedShares") =>
    LET due == { i \in DOMAIN Schedule :
                   getTime(Schedule[i].date) <= getTime(result.asOfDate) }
    IN /\ result.value =
            SumOf([i \in DOMAIN Schedule |->
                     IF i \in due THEN Schedule[i].quantity ELSE Num(0)])
       /\ due = {} => result.value = Num(0)

\* a call whose asOfDate is exactly the date of a tranche, counted, while a
\* later tranche is not
C7_Witness ==
  /\ Submitted
  /\ result.fn = "calculateTotalVestedShares"
  /\ \E i, j \in DOMAIN Schedule :
       /\ Schedule[i].date = result.asOfDate
       /\ DateGT(Schedule[j].date, result.asOfDate)
       /\ IsNum(Schedule[i].quantity) /\ Schedule[i].quantity.v > 0
       /\ IsNum(Schedule[j].quantity) /\ Schedule[j].quantity.v > 0
  /\ IsNum(result.value) /\ result.value.v > 0

\* C8: the vested total is non-decreasing in asOfDate and never exceeds the
\* grant's quantity
C8_VestedMonotone ==
  (Submitted /\ result.fn = "calculateTotalVestedShares") =>
    /\ JsLE(result.value, Num(grant.quantity))
    /\ \A d \in AsOfDates :
         DateLE(result.asOfDate, d) =>
           JsLE(result.value, calculateTotalVestedShares(grant, d))

\* C9: calculateTotalValue uses a tranche's own price whenever it has one
\* (0 included) and the fallback price only when it has none
C9_ValueUsesOwnPrice ==
  (Submitted /\ result.fn = "calculateTotalValue") =>
    result.value =
      SumOf([i \in DOMAIN Schedule |->
               JsMul(Schedule[i].quantity,
                     IF Schedule[i].price = undefined THEN result.currentPrice
                     ELSE Schedule[i].price)])

\* C10: with no tranche price set, calculateTotalValue equals
\* grant.quantity * fallbackPrice
C10_UnpricedValueIsQuantityTimesFallback ==
  (/\ Submitted
   /\ result.fn = "calculateTotalValue"
   /\ \A i \in DOMAIN Schedule : Schedule[i].price = undefined)
    => result.value = JsMul(Num(grant.quantity), result.currentPrice)

\* ------------------------------------------- properties of the calculator
\* the elements of a list
Range(list) == { list[i] : i \in DOMAIN list }
\* the tranches of two schedules agree in number, date and quantity
SameTranches(a, b) ==
  /\ Len(a) = Len(b)
  /\ \A i \in DOMAIN a : a[i].date = b[i].date /\ a[i].quantity = b[i].quantity
\* the last call was updateVestPrices on the held grant
Priced == result.fn = "updateVestPrices"
\* what the historical request for a tranche was answered in that call
AnswerFor(event) == result.historical[event.date.m % 2]
\* the tranche was vested at the time of that call
VestedThen(event) == DateLE(event.date, result.at)
\* a refresh completes in this step
RefreshCompletes == refresh # Idle /\ refresh' = Idle

\* C11: a grant removed by handleGrantDelete while a refresh that started
\* before the removal is in flight is not in the grant list after that
\* refresh completes
C11_RemovedGrantStaysRemoved ==
  [][ RefreshCompletes =>
        \A sym \in SymbolsOf(refresh.snapshot) :
          (sym \notin SymbolsOf(grants)) => (sym \notin SymbolsOf(grants')) ]_vars

\* C12: in updateVestPrices a failed fetch is flagged on its grant or tranche,
\* and every other fetch of the grant is still performed and its price
\* applied: each vested tranche carries the answer to its own request or its
\* error flag, whatever the current-price fetch did, and the grant carries
\* the current price or its error flag, whatever the tranche fetches did
C12_FetchFailuresAreIndependent ==
  Priced =>
    /\ IF fetchStockPrice(result.stock) = Throw
       THEN grant.priceError # "undefined"
       ELSE grant.currentPrice = fetchStockPrice(result.stock)
    /\ \A i \in DOMAIN Schedule :
         VestedThen(Schedule[i]) =>
           IF AnswerFor(Schedule[i]) = Throw
           THEN Schedule[i].priceError # "undefined"
           ELSE Schedule[i].price = AnswerFor(Schedule[i])

\* C13: when a refresh completes, the resulting list has a grant for every
\* grant of the refresh, and every grant whose own fetches succeeded carries
\* its newly fetched current price and tranche prices in it, whatever the
\* fetches of the other grants did
C13_RefreshUpdatesEachGrantIndependently ==
  [][ RefreshCompletes =>
        /\ Len(grants') = Len(refresh.snapshot)
        /\ \A i \in DOMAIN refresh.snapshot :
             (/\ fetchStockPrice(refresh.answers[i].stock) # Throw
              /\ refresh.answers[i].historical[0] # Throw
              /\ refresh.answers[i].historical[1] # Throw) =>
               /\ grants'[i].currentPrice = refresh.answers[i].stock
               /\ \A j \in DOMAIN grants'[i].vestingSchedule :
                    LET event == grants'[i].vestingSchedule[j]
                    IN event.price = IF DateLE(event.date, now)
                                     THEN refresh.answers[i].historical[event.date.m % 2]
                                     ELSE refresh.answers[i].stock ]_vars

\* two grants after refreshes: the first was priced by a refresh after its
\* submit had failed, the second has failed in every fetch
C13_Witness ==
  /\ refresh = Idle
  /\ Len(grants) = 2
  /\ grants[1].priceError # "undefined"
  /\ grants[1].currentPrice = Num(2)
  /\ \A j \in DOMAIN grants[1].vestingSchedule : grants[1].vestingSchedule[j].price # undefined
  /\ grants[2].priceError # "undefined"
  /\ grants[2].currentPrice = undefined

\* C14: after any sequence of refreshes, a grant or tranche whose most recent
\* fetch failed carries an error indicator and the price used for it is the
\* grant price, not a price fetched earlier
C14_FailedFetchFallsBackToGrantPrice ==
  Priced =>
    IF fetchStockPrice(result.stock) = Throw
    THEN /\ grant.priceError # "undefined"
         /\ priceUsed(grant) = grant.grantPrice
    ELSE \A i \in DOMAIN Schedule :
           (VestedThen(Schedule[i]) /\ AnswerFor(Schedule[i]) = Throw) =>
             /\ Schedule[i].priceError # "undefined"
             /\ Schedule[i].value = JsMul(Schedule[i].quantity, grant.grantPrice)

\* the grants whose prices are being fetched: those of the refresh and the
\* one of the submit in flight
InFlight ==
  Range(SnapshotOf(refresh)) \cup (IF submit = Idle THEN {} ELSE { submit.newGrant })

\* g is a grant in flight as one updateVestPrices prices it as a whole
WhollyPriced(g) ==
  \E f \in InFlight : \E a \in AppAnswers :
    g = updateVestPrices(f, now, a.stock, a.historical)

\* C15: every step that changes the grant list leaves in it only grants that
\* were in it before the step or that one updateVestPrices priced as a
\* whole: no grant of the list is partly updated
C15_NoPartlyUpdatedGrant ==
  [][ (grants' # grants) =>
        \A j \in DOMAIN grants' :
          grants'[j] \in Range(grants) \/ WhollyPriced(grants'[j]) ]_vars

\* a grant priced by a refresh after its submit had failed is in the list
C15_Witness ==
  /\ refresh = Idle
  /\ \E j \in DOMAIN grants :
       /\ grants[j].priceError # "undefined"
       /\ grants[j].currentPrice = Num(2)
       /\ \E k \in DOMAIN grants[j].vestingSchedule :
            grants[j].vestingSchedule[k].price = Num(3)
       /\ \E k \in DOMAIN grants[j].vestingSchedule :
            grants[j].vestingSchedule[k].price = Num(2)

\* the schedule generated from the submitted form
Generated ==
  generateVestingSchedule(submitted.grantDate, submitted.quantity, submitted.vestingYears,
                          submitted.cliffMonths, submitted.vestingFrequencyMonths)

\* C16: after any sequence of price refreshes the grant has the tranches
\* generated at its creation, each with its date and quantity
C16_RefreshKeepsTranches ==
  Submitted => SameTranches(Schedule, Generated)

\* the held grant after a failed and a successful refresh, time having
\* passed since its creation
C16_Witness ==
  /\ Priced
  /\ grant.priceError # "undefined"
  /\ grant.currentPrice # undefined
  /\ now # result.at
  /\ \E i \in DOMAIN Schedule : Schedule[i].priceError # "undefined"
  /\ \E i \in DOMAIN Schedule : Schedule[i].price = Num(3)

\* C17: the tranches of a grant are generated when handleSubmit creates it,
\* from the form as it is then; handleGrantEdit changes no grant, and the
\* submit that follows it appends a new grant with those tranches and leaves
\* every grant of the list as it was
C17_EditAppendsNewGrant ==
  [][ /\ \A i \in DOMAIN grants : i \in DOMAIN grants' /\ grants'[i] = grants[i]
      /\ (submit = Idle /\ submit' # Idle) =>
           SameTranches(submit'.newGrant.vestingSchedule,
                        generateVestingSchedule(formData.grantDate, formData.quantity,
                                                formData.vestingYears, formData.cliffMonths,
                                                formData.vestingFrequencyMonths))
      /\ (submit # Idle /\ submit' = Idle) =>
           /\ Len(grants') = Len(grants) + 1
           /\ SameTranches(grants'[Len(grants')].vestingSchedule, submit.newGrant.vestingSchedule)
      /\ (submit' = submit) => (grants' = grants) ]_vars

\* a grant and, after it, the grant made by editing it: the same symbol,
\* the schedule of the default vesting parameters
C17_Witness ==
  /\ Len(grants) = 2
  /\ submit = Idle
  /\ formData = defaultFormData
  /\ grants[1].symbol = grants[2].symbol
  /\ Len(grants[1].vestingSchedule) < Len(grants[2].vestingSchedule)
  /\ Len(grants[2].vestingSchedule) = 37

\* C18: calculateTotalVestedShares and calculateTotalValue change nothing:
\* the step of either call leaves the grant, its tranches and their fields
\* as they were
C18_ValuationHasNoSideEffects ==
  [][ (grant # NoGrant /\ result'.fn \in { "calculateTotalVestedShares", "calculateTotalValue" }) =>
        (grant' = grant) ]_vars

\* calculateTotalValue has been called on a grant that has a current price
\* and an unpriced tranche
C18_Witness ==
  /\ Submitted
  /\ result.fn = "calculateTotalValue"
  /\ grant.currentPrice # undefined
  /\ \E i \in DOMAIN Schedule : Schedule[i].price = undefined

\* C19: fetchHistoricalPrice for a date later than the time of the call
\* returns null, which is neither a price nor a thrown error, and sends no
\* request
C19_FutureDateReturnsNull ==
  (result.fn = "fetchHistoricalPrice" /\ DateGT(result.date, result.at)) =>
    /\ result.value = null
    /\ result.value # Throw
    /\ ~IsNum(result.value)
    /\ result.requests = 0

\* the price of a future date has been asked for
C19_Witness ==
  /\ result.fn = "fetchHistoricalPrice"
  /\ DateGT(result.date, result.at)
  /\ result.at = MkDate(2, 15)

\* every fetch of the last updateVestPrices succeeded
Successful ==
  /\ Priced
  /\ fetchStockPrice(result.stock) # Throw
  /\ \A i \in DOMAIN Schedule : VestedThen(Schedule[i]) => AnswerFor(Schedule[i]) # Throw

\* C20: after a successful updateVestPrices every tranche dated on or before
\* the time of the call carries the historical price fetched for its own
\* date, and every later tranche the current price just fetched
C20_VestedHistoricalUnvestedCurrent ==
  Successful =>
    \A i \in DOMAIN Schedule :
      Schedule[i].price = IF VestedThen(Schedule[i])
                          THEN AnswerFor(Schedule[i])
                          ELSE fetchStockPrice(result.stock)

\* a successful update of a grant with vested tranches of both parities,
\* answered differently, and unvested ones
C20_Witness ==
  /\ Successful
  /\ result.historical[0] # result.historical[1]
  /\ \E i, j \in DOMAIN Schedule :
       /\ VestedThen(Schedule[i]) /\ VestedThen(Schedule[j])
       /\ Schedule[i].date.m % 2 # Schedule[j].date.m % 2
  /\ \E i \in DOMAIN Schedule : ~VestedThen(Schedule[i])

\* ------------------------------------------- properties of the scenarios
\* C21: 1200 shares, 4 years, cliff 12, frequency 3, granted 2024-01-01: 13
\* tranches, the first at offset 12 (2025-01-01) with quantity 96, then 12
\* tranches of quantity 92 at offsets 15, 18, ..., 48; 1200 in total
C21_Scenario1200 ==
  (Submitted /\ submitted = Scenario1200) =>
    /\ Len(Schedule) = 13
    /\ Offset(Schedule[1]) = 12
    /\ Schedule[1].date = MkDate(12, 1)
    /\ Schedule[1].quantity = Num(96)
    /\ \A k \in 1..12 :
         /\ Offset(Schedule[k + 1]) = 12 + 3 * k
         /\ Schedule[k + 1].quantity = Num(92)
    /\ SumOf([i \in DOMAIN Schedule |-> Schedule[i].quantity]) = Num(1200)

\* the 1200-share form has been submitted
C21_Witness ==
  /\ Submitted
  /\ submitted = Scenario1200
  /\ Len(Schedule) > 1

\* C22: 100 shares, 1 year, no cliff, frequency 1: 12 tranches at offsets
\* 1..12, the first 11 of quantity 8 and the last of quantity 12
C22_Scenario100 ==
  (Submitted /\ submitted = Scenario100) =>
    /\ Len(Schedule) = 12
    /\ \A k \in 1..12 :
         /\ Offset(Schedule[k]) = k
         /\ Schedule[k].quantity = IF k = 12 THEN Num(12) ELSE Num(8)

\* the 100-share form has been submitted
C22_Witness ==
  /\ Submitted
  /\ submitted = Scenario100
  /\ Len(Schedule) > 1

\* C23 as stated: in the 1200-share scenario the first tranche, at
\* 2025-01-01, has the quantity 1200/16 = 75
C23_FirstTrancheIs75 ==
  (Submitted /\ submitted = Scenario1200) =>
    /\ Schedule[1].date = MkDate(12, 1)
    /\ Schedule[1].quantity = Num(1200 \div 16)

\* C23 amended: in the 1200-share scenario the first tranche, at 2025-01-01,
\* has the quantity floor(1200/13) + (1200 - 13 * floor(1200/13)) = 96, 13
\* being the event count
C23_FirstTrancheIsBasePlusRemainder ==
  (Submitted /\ submitted = Scenario1200) =>
    /\ Schedule[1].date = MkDate(12, 1)
    /\ Schedule[1].quantity = Num((1200 \div 13) + (1200 - 13 * (1200 \div 13)))
    /\ Schedule[1].quantity = Num(96)

\* the 1200-share schedule has its cliff tranche on 2025-01-01
C23_Witness ==
  /\ Submitted
  /\ submitted = Scenario1200
  /\ Schedule[1].date = MkDate(12, 1)
  /\ Schedule[1].date # Schedule[2].date

\* ------------------------------------------------ properties of the prices
\* the last updateVestPrices got its current price, so it has processed
\* every tranche
Processed == Priced /\ fetchStockPrice(result.stock) # Throw

\* C24: after updateVestPrices has processed a tranche, its value is its
\* quantity times its price, and a tranche without a price has no value
C24_ValueIsQuantityTimesPrice ==
  Processed =>
    \A i \in DOMAIN Schedule :
      Schedule[i].value = IF Schedule[i].price = undefined
                          THEN undefined
                          ELSE JsMul(Schedule[i].quantity, Schedule[i].price)

\* ------------------------------------------- properties of the generator
\* the form is valid: at least one share, a frequency of at least one month
\* and a cliff within the vesting period
ValidForm ==
  /\ submitted.quantity >= 1
  /\ submitted.vestingFrequencyMonths >= 1
  /\ submitted.cliffMonths >= 0
  /\ submitted.cliffMonths <= TotalMonths

\* C25: the number of tranches emitted equals the event count the base
\* quantity was computed from, floor((totalMonths - cliffMonths)/frequency)
\* + 1 with a cliff and ceil(totalMonths/frequency) without, for every valid
\* input
C25_TrancheCountIsEventCount ==
  (Submitted /\ ValidForm) =>
    Len(Schedule) = totalVestingEventsOf(TotalMonths, submitted.cliffMonths,
                                         submitted.vestingFrequencyMonths)

\* the generator is running or has returned
Generating == result.fn = "generateVestingSchedule"
Returned == Generating /\ result.pc = "returned"

\* C26: for a frequency of at least one month the call returns; each
\* iteration of its loop leaves the month counter greater than it was, and
\* the loop pushes at most floor(totalMonths / frequency) tranches
C26_GeneratorTerminates ==
  /\ [][ (Generating /\ result'.pushed > result.pushed) => (result'.month > result.month) ]_vars
  /\ [](Generating =>
          result.pushed <= result.totalVestingMonths \div formData.vestingFrequencyMonths)
  /\ <>Returned

\* the call has returned after its loop ran more than once, and it returns
\* what generateVestingSchedule is modelled to return
C26_Witness ==
  /\ Returned
  /\ result.pushed > 1
  /\ result.vestingEvents =
       generateVestingSchedule(formData.grantDate, formData.quantity, formData.vestingYears,
                               formData.cliffMonths, formData.vestingFrequencyMonths)

\* ---------------------------------------- properties of the grant list
\* a handleSubmit appends its grant in this step
SubmitCompletes == submit # Idle /\ submit' = Idle

\* C27: a grant leaves the grant list only through handleGrantDelete: the
\* step that completes a refresh, like the step that appends a grant, keeps
\* every grant of the list, a grant appended while the refresh was in flight
\* included
C27_OnlyDeleteRemovesGrants ==
  [][ (RefreshCompletes \/ SubmitCompletes) =>
        (SymbolsOf(grants) \subseteq SymbolsOf(grants')) ]_vars

\* C28: priceError reflects the most recent refresh: after an
\* updateVestPrices whose current-price fetch succeeded the grant carries no
\* priceError, and a tranche whose own fetch succeeded in it carries none
C28_ErrorFlagsAreCleared ==
  Processed =>
    /\ grant.priceError = "undefined"
    /\ \A i \in DOMAIN Schedule :
         (VestedThen(Schedule[i]) /\ AnswerFor(Schedule[i]) # Throw) =>
           Schedule[i].priceError = "undefined"

====
